---- MODULE Spec2Model ----
(***************************************************************************)
(* econml/cate_estimator.py: the fit lifecycle of BaseCateEstimator, the   *)
(* deferred interval methods, the treatment expansion of                   *)
(* TreatmentExpansionMixin and the tensor contraction of                   *)
(* LinearCateEstimator.                                                    *)
(***************************************************************************)
EXTENDS Integers, Sequences, FiniteSets, TLC

VARIABLES
    cls,          \* estimator -> its concrete class (fixed at construction)
    _inference,   \* estimator -> Unset | None | id of the stored inference object
    _d_y,         \* estimator -> Unset | trailing dimensions of Y
    _d_t,         \* estimator -> Unset | trailing dimensions of T
    _d_t_in,      \* estimator -> Unset | raw trailing dimensions of T (expansion mixin)
    model,        \* estimator -> Unset | the data the concrete model was last fitted on
    heap,         \* object id -> Free | state of an inference object
    frame,        \* the call in progress (Python is single-threaded: at most one)
    trace,        \* the steps the current / most recent call has taken
    outcome,      \* what the most recent completed call returned or raised
    warned,       \* number of warnings the most recent completed call emitted
    transformer,  \* estimator -> NoTransformer | the treatment transformer it uses
    last          \* arguments and local values of the most recent effect,
                  \* marginal_effect or _expand_treatments call

vars == <<cls, _inference, _d_y, _d_t, _d_t_in, model, heap, frame, trace, outcome,
          warned, transformer, last>>

----------------------------------------------------------------------------
(* Bounds *)

MaxRows == 2       \* rows of an input array
MaxDim == 2        \* width of the second axis of Y or T
NumCallerInf == 1  \* inference instances the caller constructs and passes to fit

----------------------------------------------------------------------------
(* Values *)

None == 0          \* reference value of Python's None
Unset == -1        \* reference value of an attribute never assigned on the instance
NoDims == <<-1>>   \* _d_y / _d_t / _d_t_in never assigned
NoArgs == <<>>     \* the method has not been called / nothing fitted

NoTransformer == "None"   \* TreatmentExpansionMixin.transformer = None
NoCall == [op |-> ""]

Estimators == {"est1", "est2"}

\* concrete classes, named by the bases of cate_estimator.py they derive from
Classes == {"Base", "Linear", "LinearDML"}

Bases(c) ==
    CASE c = "Base" -> {"BaseCateEstimator"}
      [] c = "Linear" -> {"BaseCateEstimator", "LinearCateEstimator"}
      [] c = "LinearDML" -> {"BaseCateEstimator", "LinearCateEstimator",
                             "TreatmentExpansionMixin", "StatsModelsCateEstimatorMixin"}

\* the arguments of a fit: the shapes of the Y and T arrays, each a vector or a
\* matrix, the further positional arguments and the keyword arguments (as
\* name-value pairs) other than inference
FitData == {[Y |-> <<MaxRows>>, T |-> <<MaxRows, MaxDim>>,
             args |-> <<"X", "W">>, kwargs |-> {}],
            [Y |-> <<MaxRows, 1>>, T |-> <<MaxRows>>,
             args |-> <<"X">>, kwargs |-> {<<"W", "W">>}]}

----------------------------------------------------------------------------
(* The heap of inference objects *)

CallerIds == 1..NumCallerInf
\* caller instances, one stored object per estimator, the copy of the fit in
\* progress and the instance a string key constructs before it is copied
NumObjs == NumCallerInf + Cardinality(Estimators) + 2
ObjIds == 1..NumObjs

FreeSlot == [live |-> FALSE, type |-> "", init |-> <<>>, prefit |-> NoArgs, fit |-> NoArgs]

\* type(*init): a freshly constructed inference object
NewInference(type, init) ==
    [live |-> TRUE, type |-> type, init |-> init, prefit |-> NoArgs, fit |-> NoArgs]

\* the instances the caller constructs, as the test does: BootstrapInference(1)
CallerInference == NewInference("BootstrapInference", <<1>>)

Alloc(h) == CHOOSE i \in ObjIds : ~h[i].live /\ \A j \in 1..(i - 1) : h[j].live

\* objects no longer referenced are reclaimed
Collect(h, roots) == [i \in ObjIds |-> IF i \in roots THEN h[i] ELSE FreeSlot]

Roots(stored, inflight) ==
    CallerIds \cup (({stored[e] : e \in Estimators} \cup {inflight}) \ {None, Unset})

DeepCopy_alias(h, ref) == [heap |-> h, ref |-> ref]

\* copy.deepcopy: None is copied to None, an object to a new object of equal state
DeepCopy(h, ref) ==
    IF ref = None
    THEN [heap |-> h, ref |-> None]
    ELSE LET id == Alloc(h) IN [heap |-> [h EXCEPT ![id] = h[ref]], ref |-> id]

----------------------------------------------------------------------------
(* BaseCateEstimator: inference resolution *)

\* the registry as the dict's items, in insertion order
BaseInferenceOptions == << <<"bootstrap", "BootstrapInference">> >>

StatsModelsInferenceOptions ==
    Append(BaseInferenceOptions, <<"statsmodels", "StatsModelsInference">>)

GetInferenceOptions_baseOnly(c) == BaseInferenceOptions

GetInferenceOptions(c) ==
    IF "StatsModelsCateEstimatorMixin" \in Bases(c)
    THEN StatsModelsInferenceOptions
    ELSE BaseInferenceOptions

Keys(options) == [i \in 1..Len(options) |-> options[i][1]]

Lookup(options, key) ==
    (CHOOSE i \in 1..Len(options) : options[i][1] = key)

\* the inference argument of fit: None, a string, or an instance of the caller
StrArg(key) == [kind |-> "str", key |-> key, id |-> None]
ObjArg(id) == [kind |-> "obj", key |-> "", id |-> id]
NoneArg == [kind |-> "None", key |-> "", id |-> None]
InferenceKeys == {"bootstrap", "statsmodels", "not-a-method"}
InferenceArgs ==
    {NoneArg} \cup {StrArg(k) : k \in InferenceKeys} \cup {ObjArg(i) : i \in CallerIds}

GetInference_unknownAsNone(c, h, inference) ==
    LET options == GetInferenceOptions(c) IN
    IF inference.kind = "str" /\ \E i \in 1..Len(options) : options[i][1] = inference.key
    THEN LET made == Alloc(h)
             h1 == [h EXCEPT ![made] = NewInference(options[Lookup(options, inference.key)][2], <<>>)]
             cp == DeepCopy(h1, made)
         IN [raised |-> FALSE, heap |-> cp.heap, ref |-> cp.ref, key |-> "", valid |-> <<>>]
    ELSE LET cp == DeepCopy(h, inference.id)
         IN [raised |-> FALSE, heap |-> cp.heap, ref |-> cp.ref, key |-> "", valid |-> <<>>]

\* _get_inference: [raised, key, valid] or [raised, heap, ref]
GetInference(c, h, inference) ==
    LET options == GetInferenceOptions(c) IN
    IF inference.kind = "str"
    THEN IF \E i \in 1..Len(options) : options[i][1] = inference.key
         THEN LET made == Alloc(h)
                  h1 == [h EXCEPT ![made] = NewInference(options[Lookup(options, inference.key)][2], <<>>)]
                  cp == DeepCopy(h1, made)
              IN [raised |-> FALSE, heap |-> cp.heap, ref |-> cp.ref,
                  key |-> "", valid |-> <<>>]
         ELSE [raised |-> TRUE, heap |-> h, ref |-> None,
               key |-> inference.key, valid |-> Keys(options)]
    ELSE LET cp == DeepCopy(h, inference.id)
         IN [raised |-> FALSE, heap |-> cp.heap, ref |-> cp.ref,
             key |-> "", valid |-> <<>>]

----------------------------------------------------------------------------
(* Outcomes of calls *)

Pending ==
    [kind |-> "none", exc |-> "", msg |-> "", name |-> "", valid |-> <<>>, value |-> <<>>]

Return(v) ==
    [kind |-> "return", exc |-> "", msg |-> "", name |-> "", valid |-> <<>>, value |-> v]

Raise(exc, msg, name, valid) ==
    [kind |-> "raise", exc |-> exc, msg |-> msg, name |-> name, valid |-> valid,
     value |-> <<>>]

\* line 34: ValueError naming the key and listing the valid keys
NotRecognized(key, valid) ==
    Raise("ValueError", "Inference option '%s' not recognized; valid values are %s",
          key, valid)

\* line 171
CantCall(name) ==
    Raise("AttributeError", "Can't call '%s' because 'inference' is None", name, <<>>)

\* reading an attribute that was never assigned on the instance
NoAttribute(name) ==
    Raise("AttributeError", "'%s' object has no attribute '%s'", name, <<>>)

\* whatever a collaborator (the inference object, the concrete model) raises
Raised(step) == Raise("Exception", "", step, <<>>)

----------------------------------------------------------------------------
(* BaseCateEstimator._wrap_fit *)

Idle == [pc |-> "idle", self |-> "", Y |-> <<>>, T |-> <<>>, args |-> <<>>, kwargs |-> {},
         inference |-> None]

NextStep_inferenceFitFirst(pc) ==
    CASE pc = "_get_inference" -> "_prefit"
      [] pc = "_prefit" -> "inference.prefit"
      [] pc = "inference.prefit" -> "inference.fit"
      [] pc = "inference.fit" -> "m"
      [] pc = "m" -> "store"
      [] pc = "store" -> "idle"

\* the statements of call, in program order
NextStep(pc) ==
    CASE pc = "_get_inference" -> "_prefit"
      [] pc = "_prefit" -> "inference.prefit"
      [] pc = "inference.prefit" -> "m"
      [] pc = "m" -> "inference.fit"
      [] pc = "inference.fit" -> "store"
      [] pc = "store" -> "idle"

\* np.shape(A)[1:]
TrailingDims(shape) == Tail(shape)

Prefit_onlyOnce(e, Y, T) ==
    /\ _d_y' = IF _d_y[e] = NoDims THEN [_d_y EXCEPT ![e] = TrailingDims(Y)] ELSE _d_y
    /\ _d_t' = IF _d_t[e] = NoDims THEN [_d_t EXCEPT ![e] = TrailingDims(T)] ELSE _d_t
    /\ _d_t_in' = IF "TreatmentExpansionMixin" \in Bases(cls[e]) /\ _d_t_in[e] = NoDims
                  THEN [_d_t_in EXCEPT ![e] = TrailingDims(T)]
                  ELSE _d_t_in

\* BaseCateEstimator._prefit / TreatmentExpansionMixin._prefit
Prefit(e, Y, T) ==
    /\ _d_y' = [_d_y EXCEPT ![e] = TrailingDims(Y)]
    /\ _d_t' = [_d_t EXCEPT ![e] = TrailingDims(T)]
    /\ _d_t_in' = IF "TreatmentExpansionMixin" \in Bases(cls[e])
                  THEN [_d_t_in EXCEPT ![e] = TrailingDims(T)]
                  ELSE _d_t_in

\* line 83: the call is entered and the inference argument resolved
FitGetInference(e, Y, T, args, kwargs, inference) ==
    /\ frame.pc = "idle"
    /\ LET r == GetInference(cls[e], heap, inference) IN
       IF r.raised
       THEN /\ outcome' = NotRecognized(r.key, r.valid)
            /\ frame' = Idle
            /\ heap' = heap
       ELSE /\ outcome' = Pending
            /\ frame' = [pc |-> NextStep("_get_inference"), self |-> e,
                         Y |-> Y, T |-> T, args |-> args, kwargs |-> kwargs,
                         inference |-> r.ref]
            /\ heap' = Collect(r.heap, Roots(_inference, r.ref))
    /\ trace' = <<"_get_inference">>
    /\ warned' = 0
    /\ UNCHANGED <<cls, _inference, _d_y, _d_t, _d_t_in, model>>

\* line 84
FitPrefit ==
    /\ frame.pc = "_prefit"
    /\ Prefit(frame.self, frame.Y, frame.T)
    /\ frame' = [frame EXCEPT !.pc = NextStep("_prefit")]
    /\ trace' = Append(trace, "_prefit")
    /\ UNCHANGED <<cls, _inference, model, heap, outcome, warned>>

FitRaise_storeFirst(step) ==
    /\ frame' = Idle
    /\ outcome' = Raised(step)
    /\ _inference' = [_inference EXCEPT ![frame.self] = frame.inference]
    /\ heap' = Collect(heap, Roots(_inference', None))
    /\ UNCHANGED <<cls, _d_y, _d_t, _d_t_in, model, warned>>

\* a step of the call raises: the exception propagates out of fit
FitRaise(step) ==
    /\ frame' = Idle
    /\ outcome' = Raised(step)
    /\ heap' = Collect(heap, Roots(_inference, None))
    /\ UNCHANGED <<cls, _inference, _d_y, _d_t, _d_t_in, model, warned>>

InferenceCall_dataOnly(self, Y, T, args, kwargs) == <<self, Y, T, <<>>, {}>>

\* the arguments of inference.prefit(self, Y, T, *args, **kwargs) and of
\* inference.fit(self, Y, T, *args, **kwargs)
InferenceCall(self, Y, T, args, kwargs) == <<self, Y, T, args, kwargs>>

\* lines 85-86
FitInferencePrefit ==
    /\ frame.pc = "inference.prefit"
    /\ IF frame.inference # None
       THEN /\ trace' = Append(trace, "inference.prefit")
            /\ \/ /\ heap' = [heap EXCEPT ![frame.inference].prefit =
                                  InferenceCall(frame.self, frame.Y, frame.T,
                                                frame.args, frame.kwargs)]
                  /\ frame' = [frame EXCEPT !.pc = NextStep("inference.prefit")]
                  /\ UNCHANGED <<cls, _inference, _d_y, _d_t, _d_t_in, model, outcome, warned>>
               \/ FitRaise("inference.prefit")
       ELSE /\ frame' = [frame EXCEPT !.pc = NextStep("inference.prefit")]
            /\ UNCHANGED <<cls, _inference, _d_y, _d_t, _d_t_in, model, heap,
                           trace, outcome, warned>>

\* line 88: the wrapped fit method of the concrete class
FitModel ==
    /\ frame.pc = "m"
    /\ trace' = Append(trace, "m")
    /\ \/ /\ model' = [model EXCEPT ![frame.self] = <<frame.Y, frame.T>>]
          /\ frame' = [frame EXCEPT !.pc = NextStep("m")]
          /\ UNCHANGED <<cls, _inference, _d_y, _d_t, _d_t_in, heap, outcome, warned>>
       \/ FitRaise("m")

\* lines 89-91: the inference object reads the fitted model
FitInferenceFit ==
    /\ frame.pc = "inference.fit"
    /\ IF frame.inference # None
       THEN /\ trace' = Append(trace, "inference.fit")
            /\ \/ /\ heap' = [heap EXCEPT ![frame.inference].fit =
                                  InferenceCall(frame.self, frame.Y, frame.T,
                                                frame.args, frame.kwargs)]
                  /\ frame' = [frame EXCEPT !.pc = NextStep("inference.fit")]
                  /\ UNCHANGED <<cls, _inference, _d_y, _d_t, _d_t_in, model, outcome, warned>>
               \/ FitRaise("inference.fit")
       ELSE /\ frame' = [frame EXCEPT !.pc = NextStep("inference.fit")]
            /\ UNCHANGED <<cls, _inference, _d_y, _d_t, _d_t_in, model, heap,
                           trace, outcome, warned>>

StoreInference_keepFirst(stored, e, ref) ==
    IF stored[e] = Unset THEN [stored EXCEPT ![e] = ref] ELSE stored

\* line 92: self._inference = inference
StoreInference(stored, e, ref) == [stored EXCEPT ![e] = ref]

\* lines 92-93
FitStore ==
    /\ frame.pc = "store"
    /\ _inference' = StoreInference(_inference, frame.self, frame.inference)
    /\ outcome' = Return(frame.self)
    /\ frame' = [frame EXCEPT !.pc = NextStep("store"), !.self = "", !.Y = <<>>,
                              !.T = <<>>, !.args = <<>>, !.kwargs = {},
                              !.inference = None]
    /\ heap' = Collect(heap, Roots(_inference', None))
    /\ trace' = Append(trace, "store")
    /\ UNCHANGED <<cls, _d_y, _d_t, _d_t_in, model, warned>>

\* fit called on one of the estimators es with one of the inference arguments infs
Fit(es, infs) ==
    /\ \/ \E e \in es, d \in FitData, inference \in infs :
             FitGetInference(e, d.Y, d.T, d.args, d.kwargs, inference)
       \/ FitPrefit
       \/ FitInferencePrefit
       \/ FitModel
       \/ FitInferenceFit
       \/ FitStore
    /\ UNCHANGED <<transformer, last>>

----------------------------------------------------------------------------
(* BaseCateEstimator._defer_to_inference and the interval methods *)

Methods(c) ==
    {"effect_interval", "marginal_effect_interval"}
    \cup (IF "LinearCateEstimator" \in Bases(c)
          THEN {"const_marginal_effect_interval"} ELSE {})
    \cup (IF "StatsModelsCateEstimatorMixin" \in Bases(c)
          THEN {"coef__interval", "intercept__interval"} ELSE {})

\* the arguments of an interval call: the positional values (arrays A and B,
\* or None) and the keyword arguments as name-value pairs
IntervalArgs ==
    {[args |-> <<"A">>, kwargs |-> {}],
     [args |-> <<"A", "B">>, kwargs |-> {}],
     [args |-> <<"A">>, kwargs |-> {<<"X", "B">>, <<"alpha", "0.05">>}],
     [args |-> <<"A", "None">>, kwargs |-> {<<"alpha", "0.05">>}]}

\* the value of keyword argument name, or its default
Keyword(kwargs, name, default) ==
    IF \E kv \in kwargs : kv[1] = name
    THEN (CHOOSE kv \in kwargs : kv[1] = name)[2]
    ELSE default

\* the parameters of marginal_effect_interval(self, T, X=None, *, alpha=0.1)
\* bound to the arguments of a call
BindMarginalEffectInterval(call) ==
    [T |-> call.args[1],
     X |-> IF Len(call.args) > 1 THEN call.args[2] ELSE Keyword(call.kwargs, "X", "None"),
     alpha |-> Keyword(call.kwargs, "alpha", "0.1")]

\* getattr(self._inference, name)(*args, **kwargs): what the object answers
Answer(ref, name, args) ==
    [by |-> ref, method |-> name, args |-> args, repeated |-> FALSE]

DeferToInference_undecorated(e, name, args) ==
    IF _inference[e] = Unset
    THEN NoAttribute("_inference")
    ELSE IF _inference[e] # None
         THEN Return(Answer(_inference[e], name, args))
         ELSE Return(None)

DeferToInference_unwrapped(e, name, args) ==
    IF _inference[e] = Unset
    THEN NoAttribute("_inference")
    ELSE IF _inference[e] # None
         THEN Return(Answer(_inference[e], name, args))
         ELSE CantCall("call")

\* call of _defer_to_inference, wrapping the method called name
DeferToInference(e, name, args) ==
    IF _inference[e] = Unset
    THEN NoAttribute("_inference")
    ELSE IF _inference[e] # None
         THEN Return(Answer(_inference[e], name, args))
         ELSE CantCall(name)

\* the method the class resolves name to
IntervalMethod(e, name, args) ==
    IF name = "marginal_effect_interval" /\ "LinearCateEstimator" \in Bases(cls[e])
    THEN \* LinearCateEstimator.marginal_effect_interval (lines 278-281): the
         \* bounds of const_marginal_effect_interval(X=X, alpha=alpha), repeated
         \* when X is None
         LET b == BindMarginalEffectInterval(args)
             effs == DeferToInference(e, "const_marginal_effect_interval",
                                      [args |-> <<>>,
                                       kwargs |-> {<<"X", b.X>>, <<"alpha", b.alpha>>}])
         IN IF effs.kind = "return" /\ b.X = "None"
            THEN Return([effs.value EXCEPT !.repeated = TRUE])
            ELSE effs
    ELSE DeferToInference(e, name, args)

IntervalCall(e, name, args) ==
    /\ frame.pc = "idle"
    /\ name \in Methods(cls[e])
    /\ outcome' = IntervalMethod(e, name, args)
    /\ trace' = <<"_defer_to_inference">>
    /\ warned' = 0
    /\ UNCHANGED <<cls, _inference, _d_y, _d_t, _d_t_in, model, heap, frame>>

\* an interval method among names called on one of the estimators es
Interval(es, names, argset) ==
    /\ \E e \in es, args \in argset :
          \E name \in names : IntervalCall(e, name, args)
    /\ UNCHANGED <<transformer, last>>

----------------------------------------------------------------------------
(* The lifecycle of one estimator *)

Init ==
    /\ cls \in [Estimators -> Classes]
    /\ _inference = [e \in Estimators |-> Unset]
    /\ _d_y = [e \in Estimators |-> NoDims]
    /\ _d_t = [e \in Estimators |-> NoDims]
    /\ _d_t_in = [e \in Estimators |-> NoDims]
    /\ model = [e \in Estimators |-> NoArgs]
    /\ heap = [i \in ObjIds |-> IF i \in CallerIds THEN CallerInference ELSE FreeSlot]
    /\ frame = Idle
    /\ trace = <<>>
    /\ outcome = Pending
    /\ warned = 0
    /\ transformer = [e \in Estimators |-> NoTransformer]
    /\ last = NoCall

AllMethods ==
    {"effect_interval", "marginal_effect_interval", "const_marginal_effect_interval",
     "coef__interval", "intercept__interval"}

Next ==
    \/ Fit({"est1"}, InferenceArgs)
    \/ Interval({"est1"}, AllMethods, IntervalArgs)

Spec == Init /\ [][Next]_vars

----------------------------------------------------------------------------
(* Two estimators fitted with the same inference instance of the caller *)

SharedArgs == {NoneArg} \cup {ObjArg(i) : i \in CallerIds}

NextShared ==
    \/ Fit(Estimators, SharedArgs)
    \/ Interval(Estimators, {"effect_interval"}, {[args |-> <<"A", "B">>, kwargs |-> {}]})

SpecShared == Init /\ [][NextShared]_vars

----------------------------------------------------------------------------
(* Arrays: a shape and one integer per index tuple; a scalar has shape <<>> *)

RECURSIVE Idx(_)
Idx(shape) ==
    IF shape = <<>>
    THEN {<<>>}
    ELSE {<<i>> \o r : i \in 1..Head(shape), r \in Idx(Tail(shape))}

\* an array of a shape holding data[i] at every index i of the shape
Array(shape, data) == [shape |-> shape, data |-> [i \in Idx(shape) |-> data[i]]]

Scalar(v) == [shape |-> <<>>, data |-> [i \in {<<>>} |-> v]]

\* X = None
NoX == [shape |-> <<-1>>, data |-> [i \in {<<>>} |-> 0]]

IsNone(X) == X.shape = NoX.shape

\* utilities.ndim, utilities.shape
NDim(A) == Len(A.shape)
Shape(A) == A.shape

\* np.full(shape, v)
Full(shape, v) == Array(shape, [i \in Idx(shape) |-> v])

\* np.repeat(A, k, axis=0): every row k times, in order
Repeat(A, k) ==
    LET shape == <<Head(A.shape) * k>> \o Tail(A.shape)
    IN Array(shape, [i \in Idx(shape) |-> A.data[<<((i[1] - 1) \div k) + 1>> \o Tail(i)]])

\* T1 - T0 for arrays of one shape
Subtract(A, B) == Array(A.shape, [i \in Idx(A.shape) |-> A.data[i] - B.data[i]])

RECURSIVE SumOver(_, _)
SumOver(S, f) ==
    IF S = {} THEN 0
    ELSE LET x == CHOOSE x \in S : TRUE IN f[x] + SumOver(S \ {x}, f)

\* str.replace(ch, '')
Remove(str, ch) == LET keep(c) == c # ch IN SelectSeq(str, keep)

Position(str, ch) == CHOOSE i \in 1..Len(str) : str[i] = ch

\* the operand and output subscripts of 'a,b->out'
Subscripts(str) ==
    [a |-> SubSeq(str, 1, Position(str, ",") - 1),
     b |-> SubSeq(str, Position(str, ",") + 1, Position(str, "-") - 1),
     out |-> SubSeq(str, Position(str, ">") + 1, Len(str))]

Letters(seq) == {seq[i] : i \in 1..Len(seq)}

EinsumError == [shape |-> <<-2>>, data |-> [i \in {<<>>} |-> 0]]

\* np.einsum(str, A, B): out[o] is the sum, over the subscripts that are not
\* in the output, of A[a] * B[b]
Einsum(str, A, B) ==
    LET sub == Subscripts(str)
        size(l) == IF l \in Letters(sub.a)
                   THEN A.shape[Position(sub.a, l)]
                   ELSE B.shape[Position(sub.b, l)]
        summed == (Letters(sub.a) \cup Letters(sub.b)) \ Letters(sub.out)
        maxsize == IF summed = {} THEN 0
                   ELSE CHOOSE n \in {size(l) : l \in summed} :
                           \A l \in summed : size(l) <= n
        assignments == {g \in [summed -> 1..maxsize] : \A l \in summed : g[l] <= size(l)}
        at(o, g, l) == IF l \in summed THEN g[l] ELSE o[Position(sub.out, l)]
        term(o) == [g \in assignments |->
                       A.data[[i \in 1..Len(sub.a) |-> at(o, g, sub.a[i])]]
                       * B.data[[i \in 1..Len(sub.b) |-> at(o, g, sub.b[i])]]]
        shape == [i \in 1..Len(sub.out) |-> size(sub.out[i])]
    IN IF \/ Len(sub.a) # NDim(A) \/ Len(sub.b) # NDim(B)
          \/ \E l \in Letters(sub.a) \cap Letters(sub.b) :
                A.shape[Position(sub.a, l)] # B.shape[Position(sub.b, l)]
       THEN EinsumError
       ELSE Array(shape, [o \in Idx(shape) |-> SumOver(assignments, term(o))])

----------------------------------------------------------------------------
(* The collaborators of effect and marginal_effect *)

NumCategories == 3   \* categories of a discrete treatment

TVals == 0..(NumCategories - 1)

\* a one-hot encoder that drops the first category: (n,) or (n, 1) -> (n, K - 1)
Transform(T) ==
    LET shape == <<Head(T.shape), NumCategories - 1>>
    IN Array(shape, [i \in Idx(shape) |->
                       IF T.data[<<i[1]>> \o [j \in 1..(NDim(T) - 1) |-> 1]] = i[2]
                       THEN 1 ELSE 0])

\* the coefficient the fitted model has for features x, outcome y, treatment t
Theta(x, y, t) == (x + 1) * (3 * y + t) - 5

\* const_marginal_effect of the concrete class: (m,) + _d_y + _d_t, one row
\* when X is None
ConstMarginalEffect(e, X) ==
    LET rows == IF IsNone(X) THEN 1 ELSE Head(X.shape)
        ny == Len(_d_y[e])
        shape == <<rows>> \o _d_y[e] \o _d_t[e]
    IN Array(shape, [i \in Idx(shape) |->
                       Theta(IF IsNone(X) THEN 0 ELSE X.data[<<i[1], 1>>],
                             IF ny = 0 THEN 1 ELSE i[2],
                             IF _d_t[e] = <<>> THEN 1 ELSE i[2 + ny])])

----------------------------------------------------------------------------
(* _expand_treatments *)

ShouldWarn_anyWidth(T, d_t_in) == NDim(T) = 0 /\ d_t_in # <<>>

\* line 303
ShouldWarn(T, d_t_in) == NDim(T) = 0 /\ d_t_in # <<>> /\ d_t_in[1] > 1

\* lines 307-308
Broadcast(T, n_rows, d_t_in) ==
    IF NDim(T) = 0 THEN Full(<<n_rows>> \o d_t_in, T.data[<<>>]) ELSE T

ExpandTreatments_scalarsOnly(e, X, Ts) ==
    LET n_rows == IF IsNone(X) THEN 1 ELSE Head(Shape(X))
        full == [i \in 1..Len(Ts) |-> Broadcast(Ts[i], n_rows, _d_t_in[e])]
    IN [X |-> X,
        full |-> full,
        out |-> [i \in 1..Len(Ts) |->
                   IF transformer[e] # NoTransformer /\ NDim(Ts[i]) = 0
                   THEN Transform(full[i]) ELSE full[i]],
        warnings |-> Cardinality({i \in 1..Len(Ts) : ShouldWarn(Ts[i], _d_t_in[e])})]

\* BaseCateEstimator._expand_treatments and its override in
\* TreatmentExpansionMixin: the broadcast treatments, the returned ones and the
\* number of warnings
ExpandTreatments(e, X, Ts) ==
    IF "TreatmentExpansionMixin" \in Bases(cls[e])
    THEN LET n_rows == IF IsNone(X) THEN 1 ELSE Head(Shape(X))
             full == [i \in 1..Len(Ts) |-> Broadcast(Ts[i], n_rows, _d_t_in[e])]
         IN [X |-> X,
             full |-> full,
             out |-> [i \in 1..Len(Ts) |->
                        IF transformer[e] # NoTransformer
                        THEN Transform(full[i]) ELSE full[i]],
             warnings |-> Cardinality({i \in 1..Len(Ts) : ShouldWarn(Ts[i], _d_t_in[e])})]
    ELSE [X |-> X, full |-> Ts, out |-> Ts, warnings |-> 0]

----------------------------------------------------------------------------
(* LinearCateEstimator.effect and marginal_effect *)

Chars(a, b, out) == a \o <<",">> \o b \o <<"-", ">">> \o out

EinsumStr_keepY(eff, dT) ==
    LET s0 == Chars(<<"m", "y", "t">>, <<"m", "t">>, <<"m", "y">>)
    IN IF NDim(dT) = 1 THEN Remove(s0, "t") ELSE s0

\* lines 244-248
EinsumStr(eff, dT) ==
    LET s0 == Chars(<<"m", "y", "t">>, <<"m", "t">>, <<"m", "y">>)
        s1 == IF NDim(dT) = 1 THEN Remove(s0, "t") ELSE s0
    IN IF NDim(eff) = NDim(dT) THEN Remove(s1, "y") ELSE s1

Effect_noRepeat(e, X, T0, T1) ==
    LET x == ExpandTreatments(e, X, <<T0, T1>>)
        eff == ConstMarginalEffect(e, x.X)
        dT == Subtract(x.out[2], x.out[1])
        str == EinsumStr(eff, dT)
    IN [op |-> "effect", X |-> X, Ts |-> <<T0, T1>>, full |-> x.full, out |-> x.out,
        warnings |-> x.warnings, eff |-> eff, dT |-> dT, einsum_str |-> str,
        result |-> Einsum(str, eff, dT)]

\* lines 234-249: the local values and the result
Effect(e, X, T0, T1) ==
    LET x == ExpandTreatments(e, X, <<T0, T1>>)
        eff0 == ConstMarginalEffect(e, x.X)
        eff == IF IsNone(x.X) THEN Repeat(eff0, Shape(x.out[1])[1]) ELSE eff0
        dT == Subtract(x.out[2], x.out[1])
        str == EinsumStr(eff, dT)
    IN [op |-> "effect", X |-> X, Ts |-> <<T0, T1>>, full |-> x.full, out |-> x.out,
        warnings |-> x.warnings, eff |-> eff, dT |-> dT, einsum_str |-> str,
        result |-> Einsum(str, eff, dT)]

MarginalEffect_noRepeat(e, T, X) ==
    LET x == ExpandTreatments(e, X, <<T>>)
        eff == ConstMarginalEffect(e, x.X)
    IN [op |-> "marginal_effect", X |-> X, Ts |-> <<T>>, full |-> x.full, out |-> x.out,
        warnings |-> x.warnings, eff |-> eff, result |-> eff]

\* lines 274-276
MarginalEffect(e, T, X) ==
    LET x == ExpandTreatments(e, X, <<T>>)
        eff == ConstMarginalEffect(e, x.X)
    IN [op |-> "marginal_effect", X |-> X, Ts |-> <<T>>, full |-> x.full, out |-> x.out,
        warnings |-> x.warnings, eff |-> eff,
        result |-> IF IsNone(x.X) THEN Repeat(eff, Shape(x.out[1])[1]) ELSE eff]

----------------------------------------------------------------------------
(* Effect queries on a fitted estimator *)

\* the feature matrices of a query: m rows of one feature
XMatrix(m) == Array(<<m, 1>>, [i \in Idx(<<m, 1>>) |-> i[1]])

Xs == {NoX} \cup {XMatrix(m) : m \in 1..MaxRows}

Ramp(shape, k) ==
    Array(shape, [i \in Idx(shape) |->
                    (k * i[1] + (IF Len(i) > 1 THEN i[2] ELSE 0)) % NumCategories])

\* treatment arrays of a shape: constant ones and two with distinct entries
TreatmentArrays(shape) ==
    {Full(shape, v) : v \in TVals} \cup {Ramp(shape, k) : k \in 1..2}

Scalars == {Scalar(v) : v \in TVals}

\* the treatments a query of m rows may pass to estimator e: arrays of the
\* documented shape (m,) + d_t and, with the expansion mixin, scalars
Treatments(e, m) ==
    IF "TreatmentExpansionMixin" \in Bases(cls[e])
    THEN TreatmentArrays(<<m>> \o _d_t_in[e]) \cup Scalars
    ELSE TreatmentArrays(<<m>> \o _d_t[e])

Rows(X) == IF IsNone(X) THEN 1..MaxRows ELSE {Head(X.shape)}

Completed(call) ==
    /\ last' = call
    /\ outcome' = Return(call.result)
    /\ warned' = call.warnings
    /\ UNCHANGED <<cls, _inference, _d_y, _d_t, _d_t_in, model, heap, frame, trace,
                   transformer>>

ExpandTreatmentsCall(e, X, Ts) ==
    /\ last = NoCall
    /\ LET x == ExpandTreatments(e, X, Ts)
       IN Completed([op |-> "_expand_treatments", X |-> X, Ts |-> Ts, full |-> x.full,
                     out |-> x.out, warnings |-> x.warnings,
                     result |-> <<x.X>> \o x.out])

\* T0 and T1 have one shape once expanded, with the rows of X when X is given
EffectCall(e, X, T0, T1) ==
    /\ last = NoCall
    /\ "LinearCateEstimator" \in Bases(cls[e])
    /\ LET x == ExpandTreatments(e, X, <<T0, T1>>)
       IN /\ Shape(x.out[1]) = Shape(x.out[2])
          /\ ~IsNone(X) => Head(Shape(x.out[1])) = Head(Shape(X))
    /\ Completed(Effect(e, X, T0, T1))

MarginalEffectCall(e, T, X) ==
    /\ last = NoCall
    /\ "LinearCateEstimator" \in Bases(cls[e])
    /\ Completed(MarginalEffect(e, T, X))

\* the caller takes the result
Discard ==
    /\ last # NoCall
    /\ last' = NoCall
    /\ outcome' = Pending
    /\ warned' = 0
    /\ UNCHANGED <<cls, _inference, _d_y, _d_t, _d_t_in, model, heap, frame, trace,
                   transformer>>

DimChoices == {<<>>} \cup {<<d>> : d \in 1..MaxDim}

\* est1 after fit(Y, T, inference=None): its class, the trailing dimensions of
\* Y and T and, for a discrete treatment, the transformer and the width of the
\* transformed treatment
InitLinear ==
    /\ cls \in [Estimators -> Classes]
    /\ cls["est2"] = "Base"
    /\ \E dy \in DimChoices, dt \in DimChoices, tr \in {NoTransformer, "OneHotEncoder"} :
          LET te == "TreatmentExpansionMixin" \in Bases(cls["est1"])
              discrete == tr # NoTransformer
          IN /\ discrete => (te /\ dt \in {<<>>, <<1>>})
             /\ transformer = [e \in Estimators |-> IF e = "est1" THEN tr ELSE NoTransformer]
             /\ _d_y = [e \in Estimators |-> IF e = "est1" THEN dy ELSE NoDims]
             /\ _d_t = [e \in Estimators |->
                          IF e = "est1"
                          THEN (IF discrete THEN <<NumCategories - 1>> ELSE dt)
                          ELSE NoDims]
             /\ _d_t_in = [e \in Estimators |-> IF e = "est1" /\ te THEN dt ELSE NoDims]
             /\ model = [e \in Estimators |->
                           IF e = "est1" THEN <<<<MaxRows>> \o dy, <<MaxRows>> \o dt>>
                           ELSE NoArgs]
    /\ _inference = [e \in Estimators |-> IF e = "est1" THEN None ELSE Unset]
    /\ heap = [i \in ObjIds |-> IF i \in CallerIds THEN CallerInference ELSE FreeSlot]
    /\ frame = Idle
    /\ trace = <<>>
    /\ outcome = Pending
    /\ warned = 0
    /\ last = NoCall

NextLinear ==
    \/ \E X \in Xs : \E m \in Rows(X) :
          \E T0 \in Treatments("est1", m), T1 \in Treatments("est1", m) :
             EffectCall("est1", X, T0, T1)
    \/ \E X \in Xs : \E m \in Rows(X) :
          \E T \in Treatments("est1", m) : MarginalEffectCall("est1", T, X)
    \/ \E X \in Xs : \E m \in Rows(X) :
          \E T0 \in Treatments("est1", m), T1 \in Treatments("est1", m) :
             ExpandTreatmentsCall("est1", X, <<T0, T1>>)
    \/ Discard

SpecLinear == InitLinear /\ [][NextLinear]_vars

----------------------------------------------------------------------------
(* An estimator that is fitted, queried and fitted again *)

\* the last fit of e completed: the model is fitted on the data whose
\* dimensions e records
Fitted(e) ==
    /\ model[e] # NoArgs
    /\ _d_y[e] = TrailingDims(model[e][1])
    /\ _d_t[e] = TrailingDims(model[e][2])

QueryXs == {NoX, XMatrix(MaxRows)}

\* the treatments of a query of m rows: the scalars and one array
QueryTreatments(e, m) ==
    (IF "TreatmentExpansionMixin" \in Bases(cls[e]) THEN Scalars ELSE {})
    \cup {Ramp(<<m>> \o _d_t[e], 1)}

QueryArgs == {NoneArg, StrArg("bootstrap")}

NextQueries ==
    \/ last = NoCall /\ Fit({"est1"}, QueryArgs)
    \/ last = NoCall /\ Interval({"est1"}, {"effect_interval", "marginal_effect_interval"},
                                 {[args |-> <<"A", "B">>, kwargs |-> {}]})
    \/ /\ frame.pc = "idle" /\ Fitted("est1")
       /\ \E X \in QueryXs : \E m \in Rows(X) :
             \E T0 \in QueryTreatments("est1", m), T1 \in QueryTreatments("est1", m) :
                EffectCall("est1", X, T0, T1)
    \/ /\ frame.pc = "idle" /\ Fitted("est1")
       /\ \E X \in QueryXs : \E m \in Rows(X) :
             \E T \in QueryTreatments("est1", m) : MarginalEffectCall("est1", T, X)
    \/ /\ frame.pc = "idle" /\ Fitted("est1")
       /\ \E X \in QueryXs : \E m \in Rows(X) :
             \E T \in QueryTreatments("est1", m) : ExpandTreatmentsCall("est1", X, <<T>>)
    \/ Discard

SpecQueries == Init /\ [][NextQueries]_vars

----------------------------------------------------------------------------
(* Properties of the fit lifecycle *)

FitOrder ==
    <<"_get_inference", "_prefit", "inference.prefit", "m", "inference.fit", "store">>

StepIndex(step) == CHOOSE i \in 1..Len(FitOrder) : FitOrder[i] = step

IsFitTrace == trace # <<>> /\ trace[1] = "_get_inference"

HasBase(e, base) == base \in Bases(cls[e])

\* C1: in a fit whose resolved inference is not None the steps run in the order
\* resolve, _prefit, inference.prefit, model fit, inference.fit, store, each at
\* most once: before each step exactly the earlier steps have run, inference.fit
\* finds the model fitted on this call's data, and a call that returns has run
\* all six
C1_FitOrder ==
    /\ (frame.pc # "idle" /\ frame.inference # None) =>
          /\ trace = SubSeq(FitOrder, 1, StepIndex(frame.pc) - 1)
          /\ heap[frame.inference].fit # NoArgs =>
                /\ model[frame.self] = <<frame.Y, frame.T>>
                /\ heap[frame.inference].prefit # NoArgs
    /\ (frame.pc = "idle" /\ IsFitTrace /\ outcome.kind = "return") =>
          (_inference[outcome.value] # None => trace = FitOrder)
    /\ (frame.pc = "idle" /\ IsFitTrace /\ outcome.kind = "raise"
          /\ outcome.name \in {"inference.prefit", "inference.fit"}) =>
          trace = SubSeq(FitOrder, 1, StepIndex(outcome.name))

C1_Witness ==
    /\ frame.pc = "idle" /\ outcome.kind = "return" /\ trace = FitOrder
    /\ _inference["est1"] \notin {None, Unset}
    /\ heap[_inference["est1"]].fit # NoArgs

\* the keys of the registry of estimator e, written out
ExpectedKeys(e) ==
    IF HasBase(e, "StatsModelsCateEstimatorMixin")
    THEN <<"bootstrap", "statsmodels">>
    ELSE <<"bootstrap">>

UnknownKey(e, k) ==
    k = "not-a-method" \/ (k = "statsmodels" /\ ~HasBase(e, "StatsModelsCateEstimatorMixin"))

\* C2: fit with an inference string that is no key of the registry raises a
\* ValueError naming the key and listing the valid keys, and nothing else of fit
\* runs: _d_y, _d_t, the model, every inference object and the stored inference
\* are unchanged and the call is over
C2_UnknownKeyRaisesFirst ==
    [][\A e \in Estimators, d \in FitData, k \in InferenceKeys :
          (UnknownKey(e, k) /\ FitGetInference(e, d.Y, d.T, d.args, d.kwargs, StrArg(k))) =>
             /\ outcome'.kind = "raise" /\ outcome'.exc = "ValueError"
             /\ outcome'.name = k /\ outcome'.valid = ExpectedKeys(e)
             /\ frame' = Idle
             /\ trace' = <<"_get_inference">>
             /\ UNCHANGED <<_inference, _d_y, _d_t, _d_t_in, model, heap>>]_vars

C2_Witness ==
    /\ outcome.exc = "ValueError" /\ outcome.name = "not-a-method"
    /\ trace = <<"_get_inference">>
    /\ _d_y["est1"] # NoDims

\* no prefit or fit has reached an instance of the caller; every estimator
\* stores an object of its own, which holds the state of that estimator's fit
C3_OwnCopies ==
    /\ \A c \in CallerIds : heap[c] = CallerInference
    /\ \A e \in Estimators :
          _inference[e] \notin {None, Unset} =>
             /\ _inference[e] \notin CallerIds
             /\ \A f \in Estimators \ {e} : _inference[f] # _inference[e]
             /\ heap[_inference[e]].live
             /\ heap[_inference[e]].prefit # NoArgs /\ heap[_inference[e]].prefit[1] = e
             /\ heap[_inference[e]].fit # NoArgs /\ heap[_inference[e]].fit[1] = e
    /\ frame.inference # None =>
          /\ frame.inference \notin CallerIds
          /\ \A e \in Estimators : _inference[e] # frame.inference

\* C3: the instance the caller passes to the fit of two estimators is never
\* reached by prefit or fit, the estimators store distinct objects that are not
\* the caller's, and what an estimator's interval methods answer from (its
\* stored object and that object's state) changes only when a fit of that same
\* estimator stores its result, never by fitting the other estimator
C3_NoSharedInference ==
    /\ []C3_OwnCopies
    /\ [][\A e \in Estimators :
             (_inference[e] \notin {None, Unset} /\ ~(frame.pc = "store" /\ frame.self = e)) =>
                /\ _inference'[e] = _inference[e]
                /\ heap'[_inference[e]] = heap[_inference[e]]]_vars

C3_Witness ==
    /\ frame.pc = "idle"
    /\ \A e \in Estimators :
          /\ _inference[e] \notin {None, Unset}
          /\ heap[_inference[e]].init = CallerInference.init
          /\ heap[_inference[e]].fit # NoArgs
    /\ heap[_inference["est1"]].fit # heap[_inference["est2"]].fit

EstimatorState == <<cls, _inference, _d_y, _d_t, _d_t_in, model, heap>>

\* C4: once a fit has completed with inference=None, every deferred interval
\* method the class has raises an AttributeError and returns no value, and the
\* estimator's state is unchanged
C4_NoInferenceRaises ==
    [][\A e \in Estimators, name \in AllMethods, args \in IntervalArgs :
          (_inference[e] = None /\ IntervalCall(e, name, args)) =>
             /\ outcome'.kind = "raise" /\ outcome'.exc = "AttributeError"
             /\ UNCHANGED EstimatorState]_vars

C4_Witness ==
    /\ _inference["est1"] = None
    /\ outcome.kind = "raise" /\ outcome.exc = "AttributeError"
    /\ outcome.name = "coef__interval"

\* C5: a deferred interval method called on an estimator that was never fitted
\* fails with the "Can't call '<method>' because 'inference' is None" error
C5_UnfittedSameError ==
    [][\A e \in Estimators, name \in AllMethods, args \in IntervalArgs :
          (_inference[e] = Unset /\ IntervalCall(e, name, args)) =>
             /\ outcome'.kind = "raise" /\ outcome'.exc = "AttributeError"
             /\ outcome'.msg = CantCall(name).msg]_vars

\* C6 as stated: with no inference configured the AttributeError names the
\* method the caller invoked, for every interval method of every class
C6_NamesInvokedMethod ==
    [][\A e \in Estimators, name \in AllMethods, args \in IntervalArgs :
          (_inference[e] = None /\ IntervalCall(e, name, args)) =>
             outcome'.name = name]_vars

\* C6: after a fit with inference=None the AttributeError names the method the
\* caller invoked, except that marginal_effect_interval of a
\* LinearCateEstimator names const_marginal_effect_interval, the deferred
\* method it calls
C6_NamesDeferredMethod ==
    [][\A e \in Estimators, name \in AllMethods, args \in IntervalArgs :
          (_inference[e] = None /\ IntervalCall(e, name, args)) =>
             /\ outcome'.exc = "AttributeError"
             /\ outcome'.msg = "Can't call '%s' because 'inference' is None"
             /\ (name = "marginal_effect_interval" /\ HasBase(e, "LinearCateEstimator")) =>
                   outcome'.name = "const_marginal_effect_interval"
             /\ ~(name = "marginal_effect_interval" /\ HasBase(e, "LinearCateEstimator")) =>
                   outcome'.name = name]_vars

C6_Witness ==
    /\ _inference["est1"] = None
    /\ HasBase("est1", "LinearCateEstimator")
    /\ outcome.kind = "raise"
    /\ outcome.name = "const_marginal_effect_interval"

\* C10: the stored inference of an estimator changes only when a fit stores, as
\* its last step, the object that call resolved (None for inference=None, a new
\* object otherwise), replacing what was stored; the call then returns the
\* estimator; and a deferred interval call is answered by the stored object
C10_OneInferencePerEstimator ==
    [][/\ (frame.pc = "idle" /\ frame'.pc # "idle") =>
             /\ \A e \in Estimators, d \in FitData :
                   FitGetInference(e, d.Y, d.T, d.args, d.kwargs, NoneArg) => frame'.inference = None
             /\ \A e \in Estimators, d \in FitData, a \in InferenceArgs \ {NoneArg} :
                   FitGetInference(e, d.Y, d.T, d.args, d.kwargs, a) =>
                      /\ frame'.inference \in ObjIds \ CallerIds
                      /\ ~heap[frame'.inference].live /\ heap'[frame'.inference].live
       /\ frame.pc \notin {"idle", "_prefit"} => frame'.inference \in {frame.inference, None}
       /\ frame.pc = "store" =>
             /\ _inference'[frame.self] = frame.inference
             /\ outcome' = Return(frame.self)
             /\ frame'.pc = "idle"
       /\ \A e \in Estimators :
             _inference'[e] # _inference[e] => (frame.pc = "store" /\ frame.self = e)
       /\ (frame.pc = "idle" /\ frame'.pc = "idle") =>
             \A e \in Estimators, name \in AllMethods, args \in IntervalArgs :
                (_inference[e] \notin {None, Unset} /\ IntervalCall(e, name, args)) =>
                   (outcome'.kind = "return" /\ outcome'.value.by = _inference[e])]_vars

C10_Witness ==
    /\ frame.pc = "idle" /\ IsFitTrace /\ outcome = Return("est1")
    /\ _inference["est1"] = NumCallerInf + 3
    /\ heap[_inference["est1"]].fit # NoArgs

----------------------------------------------------------------------------
(* Properties of effect, marginal_effect and _expand_treatments *)

IsScalar(T) == T.shape = <<>>

\* sum of f[t] for t in 1..n
RECURSIVE Sigma(_, _)
Sigma(n, f) == IF n = 0 THEN 0 ELSE f[n] + Sigma(n - 1, f)

\* C7: effect returns, for every row m, the sum over the treatment axis of
\* eff[m,y,t] * dT[m,t], with the y axis present exactly when Y was a matrix and
\* the t axis exactly when T was one, and picks the einsum string 'myt,mt->my',
\* 'mt,mt->m', 'my,m->my' or 'm,m->m' accordingly
C7_EffectContraction ==
    last.op = "effect" =>
       LET eff == last.eff
           dT == last.dT
           res == outcome.value
           yVec == _d_y["est1"] = <<>>
           tVec == _d_t["est1"] = <<>>
           m == Head(dT.shape)
           dy == IF yVec THEN 1 ELSE _d_y["est1"][1]
           dt == IF tVec THEN 1 ELSE _d_t["est1"][1]
           ix(r, y, t) == <<r>> \o (IF yVec THEN <<>> ELSE <<y>>) \o (IF tVec THEN <<>> ELSE <<t>>)
       IN /\ outcome.kind = "return"
          /\ last.einsum_str =
                CASE ~yVec /\ ~tVec -> <<"m", "y", "t", ",", "m", "t", "-", ">", "m", "y">>
                  [] yVec /\ ~tVec -> <<"m", "t", ",", "m", "t", "-", ">", "m">>
                  [] ~yVec /\ tVec -> <<"m", "y", ",", "m", "-", ">", "m", "y">>
                  [] yVec /\ tVec -> <<"m", ",", "m", "-", ">", "m">>
          /\ NDim(eff) = 1 + (IF yVec THEN 0 ELSE 1) + (IF tVec THEN 0 ELSE 1)
          /\ NDim(dT) = IF tVec THEN 1 ELSE 2
          /\ res.shape = <<m>> \o _d_y["est1"]
          /\ \A r \in 1..m, y \in 1..dy :
                res.data[<<r>> \o (IF yVec THEN <<>> ELSE <<y>>)] =
                   Sigma(dt, [t \in 1..dt |->
                                 eff.data[ix(r, y, t)]
                                 * dT.data[<<r>> \o (IF tVec THEN <<>> ELSE <<t>>)]])

C7_Witness ==
    /\ last.op = "effect"
    /\ _d_y["est1"] = <<2>> /\ _d_t["est1"] = <<2>>
    /\ last.dT.shape = <<2, 2>>
    /\ \A i \in Idx(<<2, 2>>) : last.dT.data[i] # 0 /\ outcome.value.data[i] # 0
    /\ outcome.value.data[<<1, 1>>] # outcome.value.data[<<2, 1>>]
    /\ outcome.value.data[<<1, 1>>] # outcome.value.data[<<1, 2>>]

TreatmentWide(e) == _d_t_in[e] # <<>> /\ _d_t_in[e][1] > 1

\* C8: _expand_treatments of the expansion mixin replaces every scalar
\* treatment by an array of shape (n_rows,) + _d_t_in filled with that scalar
\* (n_rows is 1 for X None, else the rows of X), leaves every other treatment
\* as it is, warns exactly when a scalar is given and _d_t_in[0] > 1, and
\* still returns
C8_ScalarBroadcast ==
    (last.op \in {"_expand_treatments", "effect", "marginal_effect"}
       /\ HasBase("est1", "TreatmentExpansionMixin")) =>
       LET n_rows == IF IsNone(last.X) THEN 1 ELSE Head(last.X.shape)
           scalars == {i \in 1..Len(last.Ts) : IsScalar(last.Ts[i])}
       IN /\ outcome.kind = "return"
          /\ Len(last.full) = Len(last.Ts)
          /\ \A i \in scalars :
                /\ last.full[i].shape = <<n_rows>> \o _d_t_in["est1"]
                /\ DOMAIN last.full[i].data = Idx(<<n_rows>> \o _d_t_in["est1"])
                /\ \A j \in DOMAIN last.full[i].data :
                      last.full[i].data[j] = last.Ts[i].data[<<>>]
          /\ \A i \in (1..Len(last.Ts)) \ scalars : last.full[i] = last.Ts[i]
          /\ transformer["est1"] = NoTransformer => last.out = last.full
          /\ (warned > 0) <=> (scalars # {} /\ TreatmentWide("est1"))
          /\ warned = IF TreatmentWide("est1") THEN Cardinality(scalars) ELSE 0

C8_Witness ==
    /\ last.op = "_expand_treatments"
    /\ HasBase("est1", "TreatmentExpansionMixin")
    /\ _d_t_in["est1"] = <<2>>
    /\ ~IsNone(last.X) /\ Head(last.X.shape) = 2
    /\ IsScalar(last.Ts[1]) /\ last.Ts[1].data[<<>>] = 2
    /\ ~IsScalar(last.Ts[2])
    /\ warned = 1
    /\ outcome.value[2] = Full(<<2, 2>>, 2)

\* C9: marginal_effect(T, X) returns const_marginal_effect(X) when X is not
\* None, whatever T holds, and for X None the single row of
\* const_marginal_effect(None) once per row of T
C9_MarginalEffectRepeats ==
    last.op = "marginal_effect" =>
       LET res == outcome.value
           one == ConstMarginalEffect("est1", NoX)
           rowsT == IF IsScalar(last.Ts[1]) THEN 1 ELSE Head(last.Ts[1].shape)
       IN /\ outcome.kind = "return"
          /\ ~IsNone(last.X) => res = ConstMarginalEffect("est1", last.X)
          /\ IsNone(last.X) =>
                /\ Head(one.shape) = 1
                /\ res.shape = <<rowsT>> \o Tail(one.shape)
                /\ DOMAIN res.data = Idx(res.shape)
                /\ \A i \in Idx(res.shape) : res.data[i] = one.data[<<1>> \o Tail(i)]

C9_Witness ==
    /\ last.op = "marginal_effect"
    /\ IsNone(last.X)
    /\ ~IsScalar(last.Ts[1]) /\ Head(last.Ts[1].shape) = 2
    /\ _d_y["est1"] = <<2>> /\ _d_t["est1"] = <<2>>
    /\ outcome.value.shape = <<2, 2, 2>>
    /\ outcome.value.data[<<2, 1, 2>>] = Theta(0, 1, 2)

\* the type a registry maps key k to
ExpectedType(k) ==
    CASE k = "bootstrap" -> "BootstrapInference"
      [] k = "statsmodels" -> "StatsModelsInference"

\* C12: the registry of a class without the statsmodels mixin is exactly
\* {'bootstrap': BootstrapInference}, that of a class with it has 'statsmodels':
\* StatsModelsInference as well; so fit(inference='statsmodels') is resolved by
\* the classes with the mixin only and raises the unrecognized-option ValueError
\* on all others, and a fit with a string key of the registry goes on with a
\* newly constructed instance of the mapped type: no object that existed before
\* the call, and none that prefit or fit has reached
C12_RegistryPerClass ==
    [][(frame.pc = "idle" /\ trace' = <<"_get_inference">>) =>
          \A e \in Estimators, d \in FitData, k \in {"bootstrap", "statsmodels"} :
             FitGetInference(e, d.Y, d.T, d.args, d.kwargs, StrArg(k)) =>
                /\ GetInferenceOptions(cls[e]) =
                      [i \in 1..Len(ExpectedKeys(e)) |->
                          <<ExpectedKeys(e)[i], ExpectedType(ExpectedKeys(e)[i])>>]
                /\ (k = "statsmodels" /\ ~HasBase(e, "StatsModelsCateEstimatorMixin")) =>
                      /\ outcome' = NotRecognized("statsmodels", <<"bootstrap">>)
                      /\ frame' = Idle
                /\ (k = "bootstrap" \/ HasBase(e, "StatsModelsCateEstimatorMixin")) =>
                      /\ outcome'.kind # "raise"
                      /\ frame'.pc = "_prefit" /\ frame'.self = e
                      /\ frame'.inference \in ObjIds \ CallerIds
                      /\ ~heap[frame'.inference].live
                      /\ \A f \in Estimators : _inference[f] # frame'.inference
                      /\ heap'[frame'.inference] = [live |-> TRUE, type |-> ExpectedType(k),
                                                    init |-> <<>>, prefit |-> NoArgs,
                                                    fit |-> NoArgs]]_vars

\* a second fit(inference='statsmodels') of an estimator with the mixin has
\* resolved its instance while the one of the first fit is still stored
C12_Witness ==
    /\ frame.pc = "_prefit" /\ frame.self = "est1"
    /\ HasBase("est1", "StatsModelsCateEstimatorMixin")
    /\ frame.inference # None
    /\ heap[frame.inference].type = "StatsModelsInference"
    /\ heap[frame.inference].fit = NoArgs
    /\ _inference["est1"] \notin {None, Unset}
    /\ heap[_inference["est1"]].type = "StatsModelsInference"
    /\ heap[_inference["est1"]].fit # NoArgs

\* inference.prefit and inference.fit were called with the estimator, the Y and
\* T of this fit and its further positional and keyword arguments
C13_FitArgsForwarded ==
    (frame.pc \in {"m", "inference.fit", "store"} /\ frame.inference # None) =>
       /\ heap[frame.inference].prefit =
             <<frame.self, frame.Y, frame.T, frame.args, frame.kwargs>>
       /\ \A kv \in heap[frame.inference].prefit[5] : kv[1] # "inference"
       /\ frame.pc = "store" =>
             heap[frame.inference].fit = heap[frame.inference].prefit

\* the call in progress holds the arguments the caller gave to fit
FitArgsKept ==
    /\ (frame.pc = "idle" /\ frame'.pc # "idle") =>
          \A e \in Estimators, d \in FitData, a \in InferenceArgs :
             FitGetInference(e, d.Y, d.T, d.args, d.kwargs, a) =>
                (frame'.self = e /\ frame'.Y = d.Y /\ frame'.T = d.T
                   /\ frame'.args = d.args /\ frame'.kwargs = d.kwargs)
    /\ (frame.pc # "idle" /\ frame'.pc # "idle") =>
          (frame'.self = frame.self /\ frame'.Y = frame.Y /\ frame'.T = frame.T
             /\ frame'.args = frame.args /\ frame'.kwargs = frame.kwargs)

IsLinearMarginal(e, name) ==
    name = "marginal_effect_interval" /\ HasBase(e, "LinearCateEstimator")

\* C13 as stated: inference.prefit and inference.fit get the arguments of fit,
\* and every interval method (effect_interval, marginal_effect_interval,
\* const_marginal_effect_interval, coef__interval, intercept__interval) calls
\* the method of its own name on the stored object with the caller's arguments
\* and returns that result as it is
C13_ForwardsSameCall ==
    /\ []C13_FitArgsForwarded
    /\ [][/\ FitArgsKept
          /\ (frame.pc = "idle" /\ trace' = <<"_defer_to_inference">>) =>
                \A e \in Estimators, name \in AllMethods, call \in IntervalArgs :
                   (_inference[e] \notin {None, Unset} /\ IntervalCall(e, name, call)) =>
                      outcome' = Return([by |-> _inference[e], method |-> name,
                                         args |-> call, repeated |-> FALSE])]_vars

\* the X and alpha a call of marginal_effect_interval(T, X=None, *, alpha=0.1)
\* gives, written out for the calls of IntervalArgs
GivenX(call) ==
    IF Len(call.args) = 2 THEN call.args[2]
    ELSE IF <<"X", "B">> \in call.kwargs THEN "B" ELSE "None"

GivenAlpha(call) == IF <<"alpha", "0.05">> \in call.kwargs THEN "0.05" ELSE "0.1"

\* C13: inference.prefit and inference.fit get the estimator and the Y, T,
\* further positional and keyword arguments of fit, without inference; every
\* method wrapped by _defer_to_inference calls the method of its own name on
\* the stored object with the caller's arguments and returns that result as it
\* is; marginal_effect_interval of a LinearCateEstimator instead calls
\* const_marginal_effect_interval(X=X, alpha=alpha), without T, and returns
\* those bounds repeated over the rows of T when X is None
C13_ForwardsDeferredCall ==
    /\ []C13_FitArgsForwarded
    /\ [][/\ FitArgsKept
          /\ (frame.pc = "idle" /\ trace' = <<"_defer_to_inference">>) =>
                \A e \in Estimators, name \in AllMethods, call \in IntervalArgs :
                   (_inference[e] \notin {None, Unset} /\ IntervalCall(e, name, call)) =>
                      IF IsLinearMarginal(e, name)
                      THEN outcome' =
                              Return([by |-> _inference[e],
                                      method |-> "const_marginal_effect_interval",
                                      args |-> [args |-> <<>>,
                                                kwargs |-> {<<"X", GivenX(call)>>,
                                                            <<"alpha", GivenAlpha(call)>>}],
                                      repeated |-> GivenX(call) = "None"])
                      ELSE outcome' = Return([by |-> _inference[e], method |-> name,
                                              args |-> call, repeated |-> FALSE])]_vars

\* after a fit with further positional and keyword arguments that stored an
\* inference object, coef__interval was forwarded with a keyword argument
C13_Witness ==
    /\ frame.pc = "idle"
    /\ _inference["est1"] \notin {None, Unset}
    /\ heap[_inference["est1"]].fit[4] = <<"X">>
    /\ heap[_inference["est1"]].fit[5] = {<<"W", "W">>}
    /\ trace = <<"_defer_to_inference">> /\ outcome.kind = "return"
    /\ outcome.value = [by |-> _inference["est1"], method |-> "coef__interval",
                        args |-> [args |-> <<"A">>,
                                  kwargs |-> {<<"X", "B">>, <<"alpha", "0.05">>}],
                        repeated |-> FALSE]

----------------------------------------------------------------------------
(* Properties of the recorded dimensions *)

\* np.shape(A)[1:], written out: the shape without its first entry
RawDims(shape) == [i \in 1..(Len(shape) - 1) |-> shape[i + 1]]

\* while a fit is past _prefit, the estimator records the dimensions of the
\* arrays of that call
C11_DimsOfThisFit ==
    frame.pc \in {"inference.prefit", "m", "inference.fit", "store"} =>
       /\ _d_y[frame.self] = RawDims(frame.Y)
       /\ _d_t[frame.self] = RawDims(frame.T)
       /\ _d_t_in[frame.self] = IF HasBase(frame.self, "TreatmentExpansionMixin")
                                THEN RawDims(frame.T) ELSE NoDims

\* C11: every fit sets _d_y and _d_t (and _d_t_in, with the expansion mixin) in
\* its _prefit step, right after the inference is resolved and before
\* inference.prefit and the model fit run, to the trailing dimensions of the Y
\* and T of that call; no other step of fit and no effect, marginal_effect,
\* _expand_treatments or interval call changes them
C11_DimsSetOnlyByPrefit ==
    /\ []C11_DimsOfThisFit
    /\ [][/\ frame.pc = "_prefit" =>
                /\ trace = <<"_get_inference">>
                /\ _d_y'[frame.self] = RawDims(frame.Y)
                /\ _d_t'[frame.self] = RawDims(frame.T)
                /\ HasBase(frame.self, "TreatmentExpansionMixin") =>
                      _d_t_in'[frame.self] = RawDims(frame.T)
                /\ frame'.pc = "inference.prefit"
                /\ UNCHANGED <<model, heap>>
          /\ frame.pc # "_prefit" => UNCHANGED <<_d_y, _d_t, _d_t_in>>]_vars

\* a second fit, on data of other dimensions than the model was last fitted
\* on, is about to fit the model
C11_Witness ==
    /\ frame.pc = "m" /\ frame.self = "est1"
    /\ HasBase("est1", "TreatmentExpansionMixin")
    /\ model["est1"] # NoArgs
    /\ TrailingDims(model["est1"][2]) = <<MaxDim>>
    /\ _d_t["est1"] = <<>> /\ _d_t_in["est1"] = <<>> /\ _d_y["est1"] = <<1>>

----------------------------------------------------------------------------
(* Properties of effect without X and of the treatment transformer *)

\* C14: effect with X None repeats the one row of const_marginal_effect(None)
\* once per row of the expanded T0 before contracting, so the result has the
\* rows of T0/T1 and its row r is the contraction of that one row with dT[r];
\* with both treatments scalar the result has one row; with X given nothing is
\* repeated and the result has the rows of X
C14_EffectRowsWithoutX ==
    last.op = "effect" =>
       LET one == ConstMarginalEffect("est1", NoX)
           res == outcome.value
           rowsT == Head(last.out[1].shape)
           yVec == _d_y["est1"] = <<>>
           tVec == _d_t["est1"] = <<>>
           dy == IF yVec THEN 1 ELSE _d_y["est1"][1]
           dt == IF tVec THEN 1 ELSE _d_t["est1"][1]
           iy(y) == IF yVec THEN <<>> ELSE <<y>>
           it(t) == IF tVec THEN <<>> ELSE <<t>>
       IN /\ outcome.kind = "return"
          /\ IsNone(last.X) =>
                /\ Head(one.shape) = 1
                /\ Head(last.out[2].shape) = rowsT
                /\ last.eff.shape = <<rowsT>> \o Tail(one.shape)
                /\ \A i \in Idx(last.eff.shape) : last.eff.data[i] = one.data[<<1>> \o Tail(i)]
                /\ Head(res.shape) = rowsT
                /\ \A r \in 1..rowsT, y \in 1..dy :
                      res.data[<<r>> \o iy(y)] =
                         Sigma(dt, [t \in 1..dt |->
                                       one.data[<<1>> \o iy(y) \o it(t)]
                                       * last.dT.data[<<r>> \o it(t)]])
                /\ (IsScalar(last.Ts[1]) /\ IsScalar(last.Ts[2])) => Head(res.shape) = 1
          /\ ~IsNone(last.X) =>
                /\ last.eff = ConstMarginalEffect("est1", last.X)
                /\ Head(res.shape) = Head(last.X.shape)

\* effect(None, T0, T1) with arrays of two rows returned two rows that differ
C14_Witness ==
    /\ last.op = "effect" /\ IsNone(last.X)
    /\ ~IsScalar(last.Ts[1]) /\ Head(last.Ts[1].shape) = 2
    /\ _d_y["est1"] = <<>> /\ _d_t["est1"] = <<2>>
    /\ outcome.value.shape = <<2>>
    /\ outcome.value.data[<<1>>] # outcome.value.data[<<2>>]
    /\ outcome.value.data[<<1>>] # 0

\* the treatment value of row r of a vector or a one-column matrix
RowValue(T, r) == IF NDim(T) = 1 THEN T.data[<<r>>] ELSE T.data[<<r, 1>>]

\* C15: with a transformer, _expand_treatments of the expansion mixin returns
\* for every treatment, array or scalar, the encoding of it, for a scalar the
\* encoding of the array it was broadcast to: one row per row of that array,
\* encoded once; without a transformer every returned treatment is the
\* broadcast one; the result is X as given, then one output per treatment in
\* the order given
C15_TransformEveryTreatment ==
    (last.op \in {"_expand_treatments", "effect", "marginal_effect"}
       /\ HasBase("est1", "TreatmentExpansionMixin")) =>
       LET n == Len(last.Ts)
           n_rows == IF IsNone(last.X) THEN 1 ELSE Head(last.X.shape)
           rows(i) == IF IsScalar(last.Ts[i]) THEN n_rows ELSE Head(last.Ts[i].shape)
           value(i, r) == IF IsScalar(last.Ts[i])
                          THEN last.Ts[i].data[<<>>]
                          ELSE RowValue(last.Ts[i], r)
       IN /\ Len(last.out) = n
          /\ transformer["est1"] # NoTransformer =>
                \A i \in 1..n :
                   /\ last.out[i].shape = <<rows(i), NumCategories - 1>>
                   /\ DOMAIN last.out[i].data = Idx(<<rows(i), NumCategories - 1>>)
                   /\ \A r \in 1..rows(i), c \in 1..(NumCategories - 1) :
                         last.out[i].data[<<r, c>>] = IF value(i, r) = c THEN 1 ELSE 0
          /\ transformer["est1"] = NoTransformer =>
                \A i \in 1..n :
                   last.out[i] = IF IsScalar(last.Ts[i])
                                 THEN Full(<<n_rows>> \o _d_t_in["est1"], last.Ts[i].data[<<>>])
                                 ELSE last.Ts[i]
          /\ last.op = "_expand_treatments" =>
                /\ outcome.kind = "return"
                /\ Len(outcome.value) = n + 1
                /\ outcome.value[1] = last.X
                /\ \A i \in 1..n : outcome.value[i + 1] = last.out[i]

\* _expand_treatments(X, 2, T1) with a transformer returned X, the encoding of
\* the scalar on every row of X and the encoding of the array, in this order
C15_Witness ==
    /\ last.op = "_expand_treatments"
    /\ transformer["est1"] # NoTransformer
    /\ ~IsNone(last.X) /\ Head(last.X.shape) = 2
    /\ IsScalar(last.Ts[1]) /\ last.Ts[1].data[<<>>] = 2
    /\ ~IsScalar(last.Ts[2]) /\ RowValue(last.Ts[2], 1) = 1 /\ RowValue(last.Ts[2], 2) = 2
    /\ outcome.value[1] = XMatrix(2)
    /\ outcome.value[2].shape = <<2, 2>>
    /\ outcome.value[2].data[<<1, 2>>] = 1 /\ outcome.value[2].data[<<2, 2>>] = 1
    /\ outcome.value[3].data[<<1, 1>>] = 1 /\ outcome.value[3].data[<<2, 1>>] = 0
    /\ outcome.value[3].data[<<2, 2>>] = 1

----------------------------------------------------------------------------
(* Properties of a fit that fails *)

\* the steps of a fit that an exception of a collaborator can end
RaisingSteps == {"inference.prefit", "m", "inference.fit"}

\* C16: when inference.prefit, the model fit or inference.fit raises, the fit
\* ends with that exception and without assigning the stored inference: it is
\* still the object of the previous completed fit, in the state that fit left
\* it in, or still unset, while _d_y and _d_t are those of the failed call's Y
\* and T; the stored inference changes only in the store step, which a fit
\* reaches only after all its earlier steps have returned
C16_FailedFitKeepsInference ==
    [][/\ (frame.pc \in RaisingSteps /\ frame'.pc = "idle") =>
             /\ outcome'.kind = "raise" /\ outcome'.name = frame.pc
             /\ _inference'[frame.self] = _inference[frame.self]
             /\ _inference[frame.self] \notin {None, Unset} =>
                   heap'[_inference[frame.self]] = heap[_inference[frame.self]]
             /\ _d_y'[frame.self] = RawDims(frame.Y)
             /\ _d_t'[frame.self] = RawDims(frame.T)
             /\ frame.inference # None => ~heap'[frame.inference].live
       /\ \A e \in Estimators :
             _inference'[e] # _inference[e] =>
                /\ frame.pc = "store" /\ frame.self = e
                /\ _inference'[e] = frame.inference
                /\ outcome'.kind = "return"
                /\ model[e] = <<frame.Y, frame.T>>
                /\ frame.inference # None =>
                      /\ trace = SubSeq(FitOrder, 1, 5)
                      /\ heap[frame.inference].prefit # NoArgs
                      /\ heap[frame.inference].fit # NoArgs]_vars

\* a fit on other data than the stored inference object was fitted on has
\* failed in inference.fit
C16_Witness ==
    /\ frame.pc = "idle" /\ IsFitTrace
    /\ outcome.kind = "raise" /\ outcome.name = "inference.fit"
    /\ _inference["est1"] \notin {None, Unset}
    /\ heap[_inference["est1"]].fit # NoArgs
    /\ TrailingDims(heap[_inference["est1"]].fit[2]) # _d_y["est1"]
    /\ model["est1"][1] # heap[_inference["est1"]].fit[2]

====
